---- MODULE Spec2Model ----
(***************************************************************************)
(* Model of the `secret` steganography tool (src/src/main.rs): the pixel   *)
(* codecs hide_image / decrypt_image, hide_text_in_image /                 *)
(* extract_text_from_image, normalize_image and expand_image.              *)
(*                                                                         *)
(* An image is a record [w, h, px]: px maps the row-major index y*w + x    *)
(* to the pixel <<r, g, b>> (ImageBuffer<Rgb<u8>, Vec<u8>>).               *)
(***************************************************************************)
EXTENDS Integers, Sequences, FiniteSets, TLC

VARIABLES pc, source_image, secret_image, resize, expand, text,
          resized_source_image, resized_secret_image,
          hidden_image, decrypted_image, normalized_image,
          extracted_text, outcome

vars == <<pc, source_image, secret_image, resize, expand, text,
          resized_source_image, resized_secret_image,
          hidden_image, decrypted_image, normalized_image,
          extracted_text, outcome>>

(***************************************************************************)
(* Bounds of the explored inputs.                                          *)
(***************************************************************************)
MaxDim == 3

MaxSeed == 2

(***************************************************************************)
(* Bit operations on u8 values.                                            *)
(***************************************************************************)
Shr(v, k) == v \div (2 ^ k)

AndFC(v) == v - (v % 4)

AndFE(v) == v - (v % 2)

And03(v) == v % 4

And01(v) == v % 2

(***************************************************************************)
(* Images.                                                                 *)
(***************************************************************************)
NoImage == [w |-> 0, h |-> 0, px |-> <<>>]

Black == <<0, 0, 0>>

dimensions(img) == <<img.w, img.h>>

InBounds(img, x, y) == x < img.w /\ y < img.h

get_pixel(img, x, y) == img.px[y * img.w + x]

NewBuffer(w, h) == [w |-> w, h |-> h, px |-> [i \in 0..(w * h - 1) |-> Black]]

put_pixel(img, x, y, p) == [img EXCEPT !.px[y * img.w + x] = p]

\* (a, b) < (c, d) on Rust tuples: lexicographic order.
TupleLess(a, b) == a[1] < b[1] \/ (a[1] = b[1] /\ a[2] < b[2])

(***************************************************************************)
(* Input images: a small palette laid out by pixel index, channel and      *)
(* seed, so that low bits and high bits both vary over an image.           *)
(***************************************************************************)
Palette == <<255, 128, 64, 32, 3, 0, 170, 85, 191, 1, 254>>

PaletteAt(k) == Palette[(k % Len(Palette)) + 1]

TestPixel(seed, i) ==
    <<PaletteAt(seed * 4 + i), PaletteAt(seed * 4 + i + 2 + seed), PaletteAt(seed * 4 + 2 * i + 3)>>

TestImage(w, h, seed) ==
    [w |-> w, h |-> h, px |-> [i \in 0..(w * h - 1) |-> TestPixel(seed, i)]]

Seeds == 0..MaxSeed

Dims == 1..MaxDim

(***************************************************************************)
(* expand_image                                                            *)
(***************************************************************************)
\* Copies the source buffer by linear index, ignoring the row stride.
expand_image_linear(img, target_width, target_height) ==
    [w |-> target_width, h |-> target_height,
     px |-> [i \in 0..(target_width * target_height - 1) |->
                IF i < img.w * img.h THEN img.px[i] ELSE Black]]

expand_image(img, target_width, target_height) ==
    [w |-> target_width, h |-> target_height,
     px |-> [i \in 0..(target_width * target_height - 1) |->
                LET x == i % target_width
                    y == i \div target_width
                IN IF x < img.w /\ y < img.h
                      THEN get_pixel(img, x, y)
                      ELSE Black]]

(***************************************************************************)
(* DynamicImage::resize_exact with Lanczos3.  Equal dimensions give a      *)
(* copy; otherwise the resampled content is some image of the requested    *)
(* size, here the one picked by `resample`.                                *)
(***************************************************************************)
resize_exact(img, nwidth, nheight, resample) ==
    IF <<nwidth, nheight>> = dimensions(img)
       THEN img
       ELSE TestImage(nwidth, nheight, resample)

(***************************************************************************)
(* hide_image                                                              *)
(***************************************************************************)
Reconcile(src, sec, rs, ex, resample) ==
    IF TupleLess(dimensions(src), dimensions(sec))
       THEN IF rs THEN <<resize_exact(src, sec.w, sec.h, resample), sec>>
            ELSE IF ex THEN <<expand_image(src, sec.w, sec.h), sec>>
            ELSE <<src, sec>>
       ELSE IF rs THEN <<src, resize_exact(sec, src.w, src.h, resample)>>
            ELSE IF ex THEN <<src, expand_image(sec, src.w, src.h)>>
            ELSE <<src, sec>>

\* (source & 0xFE) | (secret >> 6): bit 1 of the carrier leaks into the result.
HiddenPixelMaskFE(source_pixel, secret_pixel) ==
    [i \in 1..3 |->
        LET top == Shr(secret_pixel[i], 6)
            bit1 == IF (source_pixel[i] \div 2) % 2 = 1 \/ top >= 2 THEN 2 ELSE 0
        IN AndFC(source_pixel[i]) + bit1 + (top % 2)]

HiddenPixel(source_pixel, secret_pixel) ==
    [i \in 1..3 |-> AndFC(source_pixel[i]) + Shr(secret_pixel[i], 6)]

\* The loop over source_buffer.enumerate_pixels(), from index i on.
\* get_pixel and put_pixel panic on an index outside the buffer.
RECURSIVE HideLoop(_, _, _, _)
HideLoop(source_buffer, secret_buffer, hidden_buffer, i) ==
    IF i >= source_buffer.w * source_buffer.h
       THEN [outcome |-> "ok", image |-> hidden_buffer]
       ELSE LET x == i % source_buffer.w
                y == i \div source_buffer.w
            IN IF ~InBounds(secret_buffer, x, y)
                  THEN [outcome |-> "panic_index_out_of_bounds", image |-> NoImage]
               ELSE IF ~InBounds(hidden_buffer, x, y)
                  THEN [outcome |-> "panic_index_out_of_bounds", image |-> NoImage]
               ELSE HideLoop(source_buffer, secret_buffer,
                             put_pixel(hidden_buffer, x, y,
                                       HiddenPixel(source_buffer.px[i],
                                                   get_pixel(secret_buffer, x, y))),
                             i + 1)

hide_image(src, sec, rs, ex, resample) ==
    LET pair == Reconcile(src, sec, rs, ex, resample)
        res  == HideLoop(pair[1], pair[2], NewBuffer(src.w, src.h), 0)
    IN [outcome |-> res.outcome, image |-> res.image,
        resized_source |-> pair[1], resized_secret |-> pair[2]]

(***************************************************************************)
(* decrypt_image                                                           *)
(***************************************************************************)
DecryptedPixel(hidden_pixel) == [i \in 1..3 |-> And03(hidden_pixel[i]) * 85]

decrypt_image(img) ==
    [w |-> img.w, h |-> img.h,
     px |-> [i \in 0..(img.w * img.h - 1) |-> DecryptedPixel(img.px[i])]]

(***************************************************************************)
(* The image codec as a state machine: hide_image on a carrier and a       *)
(* secret, then decrypt_image on what it returned.                         *)
(***************************************************************************)
InitImage ==
    /\ pc = "start"
    /\ \E w \in Dims, h \in Dims, s \in Seeds : source_image = TestImage(w, h, s)
    /\ \E w \in Dims, h \in Dims, s \in Seeds : secret_image = TestImage(w, h, s)
    /\ resize \in BOOLEAN
    /\ expand \in BOOLEAN
    /\ text = <<>>
    /\ resized_source_image = NoImage
    /\ resized_secret_image = NoImage
    /\ hidden_image = NoImage
    /\ decrypted_image = NoImage
    /\ normalized_image = NoImage
    /\ extracted_text = <<>>
    /\ outcome = "none"

HideImage ==
    /\ pc = "start"
    /\ \E resample \in Seeds :
          LET r == hide_image(source_image, secret_image, resize, expand, resample)
          IN /\ outcome' = r.outcome
             /\ hidden_image' = r.image
             /\ resized_source_image' = r.resized_source
             /\ resized_secret_image' = r.resized_secret
    /\ pc' = "hidden"
    /\ UNCHANGED <<source_image, secret_image, resize, expand, text,
                   decrypted_image, normalized_image, extracted_text>>

DecryptImage ==
    /\ pc = "hidden"
    /\ outcome = "ok"
    /\ decrypted_image' = decrypt_image(hidden_image)
    /\ pc' = "decrypted"
    /\ UNCHANGED <<source_image, secret_image, resize, expand, text,
                   resized_source_image, resized_secret_image,
                   hidden_image, normalized_image, extracted_text, outcome>>

NextImage == HideImage \/ DecryptImage

SpecImage == InitImage /\ [][NextImage]_vars

PixelIndices(img) == 0..(img.w * img.h - 1)

\* C2: for a carrier and a secret of equal dimensions hide_image completes,
\* and decrypt_image of its result has the carrier's dimensions and holds,
\* at every pixel and channel, (secret >> 6) * 85, one of 0, 85, 170, 255,
\* whatever the carrier holds.
C2_ImageRoundTrip ==
    (pc \in {"hidden", "decrypted"} /\ dimensions(source_image) = dimensions(secret_image)) =>
        /\ outcome = "ok"
        /\ pc = "decrypted" =>
              /\ dimensions(decrypted_image) = dimensions(source_image)
              /\ \A i \in PixelIndices(secret_image) : \A c \in 1..3 :
                    /\ decrypted_image.px[i][c] = Shr(secret_image.px[i][c], 6) * 85
                    /\ decrypted_image.px[i][c] \in {0, 85, 170, 255}

C2_Witness ==
    /\ pc = "decrypted"
    /\ dimensions(source_image) = dimensions(secret_image)
    /\ source_image.w * source_image.h >= 4
    /\ \E i \in PixelIndices(secret_image) : \E c \in 1..3 :
          /\ And03(source_image.px[i][c]) = 3
          /\ Shr(secret_image.px[i][c], 6) = 1
          /\ decrypted_image.px[i][c] = 85

\* C4: with neither resize nor expand, a secret larger than the carrier in
\* at least one axis makes hide_image fail with a size-mismatch error and
\* return no image.
C4_SizeMismatchRejected ==
    (/\ pc = "hidden"
     /\ ~resize /\ ~expand
     /\ (secret_image.w > source_image.w \/ secret_image.h > source_image.h)) =>
        (outcome = "error_size_mismatch" /\ hidden_image = NoImage)

\* C5: with resize or expand selected hide_image completes and returns an
\* image of width max(carrier width, secret width) and height
\* max(carrier height, secret height).
C5_ReconciledDimensions ==
    (pc = "hidden" /\ (resize \/ expand)) =>
        /\ outcome = "ok"
        /\ hidden_image.w = (IF source_image.w >= secret_image.w
                                THEN source_image.w ELSE secret_image.w)
        /\ hidden_image.h = (IF source_image.h >= secret_image.h
                                THEN source_image.h ELSE secret_image.h)

\* C6: when the carrier is smaller than the secret (no wider, no taller, and
\* not of the same size) and expand is the selected policy, the reconciled
\* carrier has the secret's dimensions, equals the original carrier at
\* every (x, y) inside the original carrier and is (0,0,0) everywhere else.
CarrierSmaller ==
    /\ source_image.w <= secret_image.w
    /\ source_image.h <= secret_image.h
    /\ dimensions(source_image) # dimensions(secret_image)

C6_ExpandPolicy ==
    (pc = "hidden" /\ expand /\ ~resize /\ CarrierSmaller) =>
        /\ dimensions(resized_source_image) = dimensions(secret_image)
        /\ \A x \in 0..(secret_image.w - 1) : \A y \in 0..(secret_image.h - 1) :
              get_pixel(resized_source_image, x, y) =
                 IF x < source_image.w /\ y < source_image.h
                    THEN get_pixel(source_image, x, y)
                    ELSE Black

C6_Witness ==
    /\ pc = "hidden" /\ expand /\ ~resize
    /\ source_image.w = 2 /\ source_image.h = 2
    /\ secret_image.w = 3 /\ secret_image.h = 3
    /\ get_pixel(resized_source_image, 1, 1) = get_pixel(source_image, 1, 1)
    /\ get_pixel(resized_source_image, 1, 1) # Black
    /\ get_pixel(resized_source_image, 2, 0) = Black

(***************************************************************************)
(* Text payloads.  A text is a sequence of code points; a Rust &str holds  *)
(* it in UTF-8, so text.len() and text.bytes() are those of the encoding.  *)
(***************************************************************************)
MaxTextLen == 2

MaxTextWidth == 8

MaxTextHeight == 6

\* 'H', 'i', DEL and U+00E9.
Chars == {72, 105, 127, 233}

Texts == UNION {[1..n -> Chars] : n \in 0..MaxTextLen}

Utf8Char(cp) == IF cp < 128 THEN <<cp>> ELSE <<192 + (cp \div 64), 128 + (cp % 64)>>

RECURSIVE Utf8(_)
Utf8(t) == IF t = <<>> THEN <<>> ELSE Utf8Char(Head(t)) \o Utf8(Tail(t))

\* u32::to_be_bytes
to_be_bytes(n) ==
    <<(n \div 16777216) % 256, (n \div 65536) % 256, (n \div 256) % 256, n % 256>>

\* (byte >> (7 - bit)) & 1
BitOf(byte, bit) == Shr(byte, 7 - bit) % 2

\* pixel[1] instead of pixel[0]: the bit lands in the green channel.
SetRedLsbGreen(pixel, b) == <<pixel[1], AndFE(pixel[2]) + b, pixel[3]>>

\* pixel[0] = (pixel[0] & 0xFE) | b
SetRedLsb(pixel, b) == <<AndFE(pixel[1]) + b, pixel[2], pixel[3]>>

\* One pass of `for bit in 0..8` over one byte, starting at (x, y).
\* get_pixel_mut panics on an index outside the buffer.
RECURSIVE WriteBits(_, _, _, _, _)
WriteBits(img, x, y, byte, bit) ==
    IF bit >= 8 THEN [outcome |-> "ok", image |-> img, x |-> x, y |-> y]
    ELSE IF ~InBounds(img, x, y)
       THEN [outcome |-> "panic_index_out_of_bounds", image |-> NoImage, x |-> x, y |-> y]
    ELSE LET written == put_pixel(img, x, y, SetRedLsb(get_pixel(img, x, y), BitOf(byte, bit)))
         IN IF x + 1 >= img.w
               THEN WriteBits(written, 0, y + 1, byte, bit + 1)
               ELSE WriteBits(written, x + 1, y, byte, bit + 1)

\* `for byte in bytes`, starting at (x, y).
RECURSIVE WriteBytes(_, _, _, _)
WriteBytes(img, x, y, bytes) ==
    IF bytes = <<>> THEN [outcome |-> "ok", image |-> img, x |-> x, y |-> y]
    ELSE LET r == WriteBits(img, x, y, Head(bytes), 0)
         IN IF r.outcome # "ok" THEN r
            ELSE WriteBytes(r.image, r.x, r.y, Tail(bytes))

required_pixels(t) == (Len(Utf8(t)) + 4) * 8

InsufficientSpaceGeq(required, width, height) == required >= width * height

InsufficientSpace(required, width, height) == required > width * height

hide_text_in_image(image, t) ==
    IF InsufficientSpace(required_pixels(t), image.w, image.h)
       THEN [outcome |-> "panic_insufficient_space", image |-> NoImage]
       ELSE LET prefix == WriteBytes(image, 0, 0, to_be_bytes(Len(Utf8(t))))
            IN IF prefix.outcome # "ok"
                  THEN [outcome |-> prefix.outcome, image |-> NoImage]
                  ELSE LET body == WriteBytes(prefix.image, prefix.x, prefix.y, Utf8(t))
                       IN [outcome |-> body.outcome, image |-> body.image]

(***************************************************************************)
(* extract_text_from_image                                                 *)
(***************************************************************************)
\* One pass of `for _ in 0..8`: extracted_byte = (extracted_byte << 1) | lsb.
RECURSIVE ReadBits(_, _, _, _, _)
ReadBits(img, x, y, extracted_byte, k) ==
    IF k >= 8 THEN [outcome |-> "ok", byte |-> extracted_byte, x |-> x, y |-> y]
    ELSE IF ~InBounds(img, x, y)
       THEN [outcome |-> "panic_index_out_of_bounds", byte |-> 0, x |-> x, y |-> y]
    ELSE LET next == ((extracted_byte * 2) % 256) + And01(get_pixel(img, x, y)[1])
         IN IF x + 1 >= img.w
               THEN ReadBits(img, 0, y + 1, next, k + 1)
               ELSE ReadBits(img, x + 1, y, next, k + 1)

\* The four length bytes, read from (0, 0).
RECURSIVE ReadLenBytes(_, _, _, _)
ReadLenBytes(img, x, y, k) ==
    IF k = 0 THEN [outcome |-> "ok", bytes |-> <<>>, x |-> x, y |-> y]
    ELSE LET r == ReadBits(img, x, y, 0, 0)
         IN IF r.outcome # "ok"
               THEN [outcome |-> r.outcome, bytes |-> <<>>, x |-> r.x, y |-> r.y]
               ELSE LET rest == ReadLenBytes(img, r.x, r.y, k - 1)
                    IN [outcome |-> rest.outcome, bytes |-> <<r.byte>> \o rest.bytes,
                        x |-> rest.x, y |-> rest.y]

\* i < u32::from_be_bytes(b), for a loop index i below 65536.  The u32 is
\* compared by halves: its value can lie beyond the integers TLC supports.
IndexBelowLen(i, b) == (b[1] * 256 + b[2] > 0) \/ (i < b[3] * 256 + b[4])

\* `for _ in 0..text_len`, from iteration i on; `extracted_byte as char`
\* is the code point of that value.
RECURSIVE ReadChars(_, _, _, _, _, _)
ReadChars(img, x, y, len_bytes, i, acc) ==
    IF ~IndexBelowLen(i, len_bytes) THEN [outcome |-> "ok", text |-> acc]
    ELSE LET r == ReadBits(img, x, y, 0, 0)
         IN IF r.outcome # "ok" THEN [outcome |-> r.outcome, text |-> <<>>]
            ELSE ReadChars(img, r.x, r.y, len_bytes, i + 1, Append(acc, r.byte))

TooSmall(image) == image.w * image.h < 32

extract_text_from_image(image) ==
    IF TooSmall(image)
       THEN [outcome |-> "panic_too_small", text |-> <<>>]
       ELSE LET len == ReadLenBytes(image, 0, 0, 4)
            IN IF len.outcome # "ok" THEN [outcome |-> len.outcome, text |-> <<>>]
               ELSE ReadChars(image, len.x, len.y, len.bytes, 0, <<>>)

(***************************************************************************)
(* Carriers for the text codec: a test image, optionally with a length     *)
(* prefix already stored in the red least-significant bits of its first    *)
(* 32 pixels (an image file written by some earlier embedding).            *)
(***************************************************************************)
DeclaredLens == {0, 1, 2, 3}

PrefixBit(n, i) == BitOf(to_be_bytes(n)[(i \div 8) + 1], i % 8)

PrefixImage(w, h, seed, n) ==
    [w |-> w, h |-> h,
     px |-> [i \in 0..(w * h - 1) |->
                IF i < 32 THEN SetRedLsb(TestPixel(seed, i), PrefixBit(n, i))
                          ELSE TestPixel(seed, i)]]

TextCarriers ==
    {TestImage(w, h, s) : w \in 1..MaxTextWidth, h \in 1..MaxTextHeight, s \in Seeds}
    \cup {PrefixImage(sz[1], sz[2], s, n) :
             sz \in (1..MaxTextWidth) \X (1..MaxTextHeight), s \in Seeds, n \in DeclaredLens}

(***************************************************************************)
(* The text codec as a state machine: hide_txt on a carrier and a text     *)
(* followed by decrypt_txt on its output, or decrypt_txt on the image      *)
(* as it was loaded.                                                       *)
(***************************************************************************)
InitText ==
    /\ pc = "start"
    /\ source_image \in TextCarriers
    /\ text \in Texts
    /\ secret_image = NoImage
    /\ resize = FALSE
    /\ expand = FALSE
    /\ resized_source_image = NoImage
    /\ resized_secret_image = NoImage
    /\ hidden_image = NoImage
    /\ decrypted_image = NoImage
    /\ normalized_image = NoImage
    /\ extracted_text = <<>>
    /\ outcome = "none"

HideText ==
    /\ pc = "start"
    /\ LET r == hide_text_in_image(source_image, text)
       IN /\ outcome' = r.outcome
          /\ hidden_image' = r.image
    /\ pc' = "hidden_text"
    /\ UNCHANGED <<source_image, secret_image, resize, expand, text,
                   resized_source_image, resized_secret_image,
                   decrypted_image, normalized_image, extracted_text>>

ExtractHiddenText ==
    /\ pc = "hidden_text"
    /\ outcome = "ok"
    /\ LET r == extract_text_from_image(hidden_image)
       IN /\ outcome' = r.outcome
          /\ extracted_text' = r.text
    /\ pc' = "extracted"
    /\ UNCHANGED <<source_image, secret_image, resize, expand, text,
                   resized_source_image, resized_secret_image,
                   hidden_image, decrypted_image, normalized_image>>

ExtractText ==
    /\ pc = "start"
    /\ LET r == extract_text_from_image(source_image)
       IN /\ outcome' = r.outcome
          /\ extracted_text' = r.text
    /\ pc' = "extracted_raw"
    /\ UNCHANGED <<source_image, secret_image, resize, expand, text,
                   resized_source_image, resized_secret_image,
                   hidden_image, decrypted_image, normalized_image>>

NextText == HideText \/ ExtractHiddenText \/ ExtractText

SpecText == InitText /\ [][NextText]_vars

\* C1: for a text of n characters, all of code points 0..255, and a carrier
\* with (n+4)*8 <= width*height, hide_text_in_image succeeds and
\* extract_text_from_image of its output returns exactly the text.
C1_TextRoundTrip ==
    ((Len(text) + 4) * 8 <= source_image.w * source_image.h) =>
        /\ pc = "hidden_text" => outcome = "ok"
        /\ pc = "extracted" => (outcome = "ok" /\ extracted_text = text)

\* C3: hide_text_in_image on a text of byte length n ends in the
\* insufficient-capacity error, with no image returned, when
\* (n+4)*8 > width*height, and does not raise it when (n+4)*8 <= width*height.
C3_CapacityRejection ==
    pc = "hidden_text" =>
        LET n == Len(Utf8(text))
        IN /\ (n + 4) * 8 > source_image.w * source_image.h =>
                (outcome = "panic_insufficient_space" /\ hidden_image = NoImage)
           /\ (n + 4) * 8 <= source_image.w * source_image.h =>
                outcome # "panic_insufficient_space"

\* The boundary on both sides: a text that fills the carrier to its last
\* pixel was embedded, and the last pixel took the text's last bit.
C3_Witness ==
    /\ pc = "hidden_text"
    /\ Len(Utf8(text)) = 2
    /\ source_image.w * source_image.h = 48
    /\ outcome = "ok"
    /\ And01(hidden_image.px[47][1]) = BitOf(Utf8(text)[2], 7)
    /\ And01(hidden_image.px[47][1]) # And01(source_image.px[47][1])

\* C7: a successful hide_text_in_image returns an image of the input's
\* width and height whose green channel, blue channel and upper 7 red bits
\* equal the input's at every pixel.
C7_TextFrame ==
    (pc = "hidden_text" /\ outcome = "ok") =>
        /\ dimensions(hidden_image) = dimensions(source_image)
        /\ \A i \in PixelIndices(source_image) :
              /\ hidden_image.px[i][2] = source_image.px[i][2]
              /\ hidden_image.px[i][3] = source_image.px[i][3]
              /\ Shr(hidden_image.px[i][1], 1) = Shr(source_image.px[i][1], 1)

C7_Witness ==
    /\ pc = "hidden_text" /\ outcome = "ok"
    /\ Len(text) = 2
    /\ \E i \in PixelIndices(source_image) : \E j \in PixelIndices(source_image) :
          /\ i < 32 /\ j >= 32
          /\ hidden_image.px[i][1] # source_image.px[i][1]
          /\ hidden_image.px[j][1] # source_image.px[j][1]

\* C8: on an image of at least 32 pixels extract_text_from_image never ends
\* in an out-of-range pixel index; when the declared length needs more
\* pixels than the image has it ends in a raised over-read error.
C8_OverReadIsError ==
    (pc \in {"extracted", "extracted_raw"} /\ ~TooSmall(source_image)) =>
        outcome \in {"ok", "error_over_read"}

(***************************************************************************)
(* normalize_image.  The channel arithmetic is                             *)
(*   ((value - min) as f32 / (max - min) as f32 * 255.0) as u8             *)
(* in IEEE-754 binary32: the quotient and the product are each rounded to  *)
(* a 24-bit significand (ties to even) and the cast truncates, saturates   *)
(* and sends NaN to 0.                                                     *)
(***************************************************************************)
\* Rounds q + (rem2 / (2 * d)) to an integer, ties to even; rem2 is twice
\* the remainder left under the divisor d.
RoundTiesEven(q, rem2, d) ==
    IF rem2 > d THEN q + 1
    ELSE IF rem2 = d THEN q + (q % 2)
    ELSE q

\* The least k with a * 2^k >= b: the quotient a/b is 2^-k times a value
\* in [1, 2).
RECURSIVE QuotientExponent(_, _, _)
QuotientExponent(a, b, k) == IF a * (2 ^ k) >= b THEN k ELSE QuotientExponent(a, b, k + 1)

\* `steps` more quotient bits of rem / b by long division.
RECURSIVE LongDivision(_, _, _, _)
LongDivision(q, rem, b, steps) ==
    IF steps = 0 THEN <<q, rem>>
    ELSE IF 2 * rem >= b THEN LongDivision(2 * q + 1, 2 * rem - b, b, steps - 1)
    ELSE LongDivision(2 * q, 2 * rem, b, steps - 1)

\* a as f32 / b as f32 for 0 < a <= b: the 24-bit significand M and the
\* exponent k of the quotient M * 2^-(23 + k).
F32Div(a, b) ==
    LET k  == QuotientExponent(a, b, 0)
        qr == LongDivision((a * (2 ^ k)) \div b, (a * (2 ^ k)) % b, b, 23)
    IN [sig |-> RoundTiesEven(qr[1], 2 * qr[2], b), exp |-> k]

\* (M * 2^-(23 + k)) * 255.0 cast to u8.  255 * M = 256 * hi + lo needs 31
\* or 32 bits and is rounded to 24; the cast drops the fraction.
F32Mul255AsU8(q) ==
    LET M  == q.sig
        hi == M - (M \div 256) - (IF M % 256 > 0 THEN 1 ELSE 0)
        lo == (256 - (M % 256)) % 256
        S  == IF hi >= 8388608
                 THEN RoundTiesEven(hi, 2 * lo, 256)
                 ELSE RoundTiesEven(2 * hi + (lo \div 128), 2 * (lo % 128), 128)
        shift == IF hi >= 8388608 THEN 15 + q.exp ELSE 16 + q.exp
        v  == S \div (2 ^ shift)
    IN IF v > 255 THEN 255 ELSE v

\* value.round(): the nearest integer instead of the truncating cast.
normalized_value_rounded(value, min_value, max_value) ==
    LET a == value - min_value
        b == max_value - min_value
    IN IF b = 0 THEN 0 ELSE (2 * a * 255 + b) \div (2 * b)

normalized_value(value, min_value, max_value) ==
    LET a == value - min_value
        b == max_value - min_value
    IN IF b = 0 THEN (IF a = 0 THEN 0 ELSE 255)     \* NaN as u8, inf as u8
       ELSE IF a = 0 THEN 0
       ELSE F32Mul255AsU8(F32Div(a, b))

\* The first loop: min_value and max_value folded over every channel of
\* every pixel, from index i on.
RECURSIVE MinMaxLoop(_, _, _, _)
MinMaxLoop(img, i, min_value, max_value) ==
    IF i >= img.w * img.h THEN <<min_value, max_value>>
    ELSE LET p  == img.px[i]
             lo == CHOOSE v \in {min_value, p[1], p[2], p[3]} :
                      \A u \in {min_value, p[1], p[2], p[3]} : v <= u
             hi == CHOOSE v \in {max_value, p[1], p[2], p[3]} :
                      \A u \in {max_value, p[1], p[2], p[3]} : v >= u
         IN MinMaxLoop(img, i + 1, lo, hi)

normalize_image(img) ==
    LET mm == MinMaxLoop(img, 0, 255, 0)
    IN [w |-> img.w, h |-> img.h,
        px |-> [i \in 0..(img.w * img.h - 1) |->
                   [c \in 1..3 |-> normalized_value(img.px[i][c], mm[1], mm[2])]]]

(***************************************************************************)
(* Inputs of the normalizer: images whose channels lie in lo..lo+span,     *)
(* with the smallest value in the first pixel and the largest in the last. *)
(***************************************************************************)
MaxNormDim == 2

MaxSpan == 12

Offsets == {0, 5, 100}

Spans(lo) == (0..MaxSpan) \cup {255 - lo}

NormImage(w, h, lo, span, m) ==
    [w |-> w, h |-> h,
     px |-> [i \in 0..(w * h - 1) |->
                <<lo + ((m + i) % (span + 1)),
                  lo + (IF i = w * h - 1 THEN span ELSE m),
                  lo + (IF i = 0 THEN 0 ELSE m)>>]]

InitNorm ==
    /\ pc = "start"
    /\ \E w \in 1..MaxNormDim, h \in 1..MaxNormDim, lo \in Offsets :
          \E span \in Spans(lo) : \E m \in 0..span :
             source_image = NormImage(w, h, lo, span, m)
    /\ secret_image = NoImage
    /\ resize = FALSE
    /\ expand = FALSE
    /\ text = <<>>
    /\ resized_source_image = NoImage
    /\ resized_secret_image = NoImage
    /\ hidden_image = NoImage
    /\ decrypted_image = NoImage
    /\ normalized_image = NoImage
    /\ extracted_text = <<>>
    /\ outcome = "none"

Normalize ==
    /\ pc = "start"
    /\ normalized_image' = normalize_image(source_image)
    /\ outcome' = "ok"
    /\ pc' = "normalized"
    /\ UNCHANGED <<source_image, secret_image, resize, expand, text,
                   resized_source_image, resized_secret_image,
                   hidden_image, decrypted_image, extracted_text>>

NextNorm == Normalize

SpecNorm == InitNorm /\ [][NextNorm]_vars

ChannelValues(img) == {img.px[i][c] : i \in PixelIndices(img), c \in 1..3}

GlobalMin(img) == CHOOSE v \in ChannelValues(img) : \A u \in ChannelValues(img) : v <= u

GlobalMax(img) == CHOOSE v \in ChannelValues(img) : \A u \in ChannelValues(img) : v >= u

\* round(n / d) for n >= 0, d > 0, halves rounded up.
RoundDiv(n, d) == (2 * n + d) \div (2 * d)

\* C9 as stated: on a non-constant image normalize_image returns an image
\* of the same dimensions where every channel v became
\* round((v - min) / (max - min) * 255), min and max the global extremes.
C9_NormalizationRounds ==
    (pc = "normalized" /\ GlobalMin(source_image) # GlobalMax(source_image)) =>
        /\ dimensions(normalized_image) = dimensions(source_image)
        /\ \A i \in PixelIndices(source_image) : \A c \in 1..3 :
              normalized_image.px[i][c] =
                 RoundDiv((source_image.px[i][c] - GlobalMin(source_image)) * 255,
                          GlobalMax(source_image) - GlobalMin(source_image))

\* C9 amended: every channel v became floor((v - min) / (max - min) * 255),
\* the fraction dropped instead of rounded.
C9_NormalizationTruncates ==
    (pc = "normalized" /\ GlobalMin(source_image) # GlobalMax(source_image)) =>
        /\ dimensions(normalized_image) = dimensions(source_image)
        /\ \A i \in PixelIndices(source_image) : \A c \in 1..3 :
              normalized_image.px[i][c] =
                 ((source_image.px[i][c] - GlobalMin(source_image)) * 255)
                    \div (GlobalMax(source_image) - GlobalMin(source_image))

\* A channel halfway between the extremes: 127.5 is stored as 127.
C9_Witness ==
    /\ pc = "normalized"
    /\ source_image.w * source_image.h = 4
    /\ GlobalMin(source_image) = 100
    /\ GlobalMax(source_image) = 102
    /\ \E i \in PixelIndices(source_image) :
          source_image.px[i][1] = 101 /\ normalized_image.px[i][1] = 127

\* C10: on a flat image (max = min) normalize_image either returns the
\* input unchanged or ends in the degenerate-image error.
C10_FlatImage ==
    (pc = "normalized" /\ GlobalMin(source_image) = GlobalMax(source_image)) =>
        \/ (outcome = "ok" /\ normalized_image = source_image)
        \/ (outcome = "error_degenerate_image" /\ normalized_image = NoImage)

====
